---- MODULE Spec2Model ----
(***************************************************************************)
(* Assembly of the banded normal-equations matrix                          *)
(* (geomagnetic_field_inversions/banded_tools/build_banded.pyx).           *)
(*                                                                         *)
(* The three assemblers build_banded, build_banded_2 and build_banded_3    *)
(* are modelled loop by loop.  Arrays are C-contiguous buffers: a matrix   *)
(* is a record [shape0, shape1, data] whose data is the row-major flat     *)
(* buffer, because the module is compiled with boundscheck=False and       *)
(* wraparound=False, so an index pair outside the shape addresses          *)
(* whatever lies at r*shape1 + c.  Floating-point values are modelled by   *)
(* integers: rounding is not part of the model.                            *)
(***************************************************************************)
EXTENDS Integers, Sequences, FiniteSets, TLC

VARIABLES base_DIF, temporal, p, nonzero_inds, starts, nlefts, result,
          banded, thr, todo, writers

vars == <<base_DIF, temporal, p, nonzero_inds, starts, nlefts, result,
          banded, thr, todo, writers>>

inputs == <<base_DIF, temporal, p, nonzero_inds, starts, nlefts>>

parvars == <<banded, thr, todo, writers>>

----------------------------------------------------------------------------
(* Bounds of the model. *)

MaxCoeffs == 2

MaxNt == 2

MaxData == 2

MaxP == 1

MaxVal == 2

MaxSeed == 14

MaxLocalNt == 4

ParMaxCoeffs == 1

ParMaxNt == 2

ParMaxData == 2

ParMaxP == 1

MaxDeg == 3

\* The literal of the row formula of build_banded_3.
WindowLiteral == 4

----------------------------------------------------------------------------
(* Arrays. *)

Abs(x) == IF x < 0 THEN 0 - x ELSE x

\* e, once the loop state st has been computed: the iterations of a loop run
\* in order, each on the state the one before it has left.
After(st, e) == IF st.ub \in BOOLEAN THEN e ELSE st

Size(m) == m.shape0 * m.shape1

\* np.zeros((r, c)): a fresh zero matrix.
Zeros(r, c) ==
    [shape0 |-> r, shape1 |-> c, data |-> [a \in 0..(r * c - 1) |-> 0]]

\* The flat offset of m[r, c] in a C-contiguous buffer.
Offset(m, r, c) == r * m.shape1 + c

\* Whether (r, c) lies inside the shape of m.
InShape(m, r, c) == r >= 0 /\ r < m.shape0 /\ c >= 0 /\ c < m.shape1

\* m[r, c] with boundscheck=False: the element at the flat offset when that
\* offset is inside the buffer, otherwise memory outside the array (g).
Load(m, r, c, g) ==
    IF Offset(m, r, c) \in DOMAIN m.data THEN m.data[Offset(m, r, c)] ELSE g

\* m[r, c] for (r, c) inside the shape.
At(m, r, c) == m.data[Offset(m, r, c)]

----------------------------------------------------------------------------
(* build_banded *)

\* bandw of build_banded and build_banded_2.
BandwOffset(pp, n_coeffs) == (pp + 1) * n_coeffs + 1

\* A slip in the row arithmetic: neighbouring offsets share an output row.
BandRowShared(bandw, it) == bandw - 1 - (it \div 2)

\* The output row of band offset it.
BandRow(bandw, it) == bandw - 1 - it

\* A skip condition that lets block distance p+1 through.
BlockSkipLoose(pp, it_t, jt_t) == pp + 1 < Abs(it_t - jt_t)

\* The skip condition of the column loop.
BlockSkip(pp, it_t, jt_t) == pp < Abs(it_t - jt_t)

\* A summand that takes both spatial factors at jt_s.
ProductSameSpatial(base, temp, it_t, it_s, jt_t, jt_s, kt, g) ==
    Load(temp, it_t, kt, g) * Load(base, jt_s, kt, g)
        * Load(temp, jt_t, kt, g) * Load(base, jt_s, kt, g)

\* One summand of the accumulation.
Product(base, temp, it_t, it_s, jt_t, jt_s, kt, g) ==
    Load(temp, it_t, kt, g) * Load(base, it_s, kt, g)
        * Load(temp, jt_t, kt, g) * Load(base, jt_s, kt, g)

\* Whether the four reads of one summand stay inside their arrays.
ReadsInShape(base, temp, it_t, it_s, jt_t, jt_s, kt) ==
    /\ InShape(temp, it_t, kt) /\ InShape(base, it_s, kt)
    /\ InShape(temp, jt_t, kt) /\ InShape(base, jt_s, kt)

\* for kt in range(n_data): banded[k, it+jt] += ...
\* acc is [cell, ub]: the cell's value and whether a read left its array.
RECURSIVE DenseLoopKt(_, _, _, _, _, _, _, _, _, _)
DenseLoopKt(base, temp, it_t, it_s, jt_t, jt_s, kt, n_data, g, acc) ==
    IF kt >= n_data THEN acc
    ELSE After(acc,
         DenseLoopKt(base, temp, it_t, it_s, jt_t, jt_s, kt + 1, n_data, g,
            [cell |-> acc.cell
                        + Product(base, temp, it_t, it_s, jt_t, jt_s, kt, g),
             ub |-> acc.ub
                     \/ ~ReadsInShape(base, temp, it_t, it_s, jt_t, jt_s, kt)]))

\* The body of the column loop for one (it, jt) on the loop state st.
DenseCell(base, temp, pp, bandw, it, jt, g, st) ==
    LET n_coeffs == base.shape0
        it_t == (it + jt) \div n_coeffs
        jt_t == jt \div n_coeffs
        it_s == (it + jt) % n_coeffs
        jt_s == jt % n_coeffs
        a == Offset(st.m, BandRow(bandw, it), it + jt)
        r == DenseLoopKt(base, temp, it_t, it_s, jt_t, jt_s, 0, base.shape1, g,
                         [cell |-> st.m.data[a], ub |-> st.ub])
    IN  IF BlockSkip(pp, it_t, jt_t) THEN st
        ELSE [st EXCEPT !.m.data[a] = r.cell, !.ub = r.ub, !.w = @ \cup {a}]

\* for jt in range(n_t*n_coeffs - it)
RECURSIVE DenseLoopJt(_, _, _, _, _, _, _, _)
DenseLoopJt(base, temp, pp, bandw, it, jt, g, st) ==
    IF jt >= temp.shape0 * base.shape0 - it THEN st
    ELSE After(st,
         DenseLoopJt(base, temp, pp, bandw, it, jt + 1, g,
                     DenseCell(base, temp, pp, bandw, it, jt, g, st)))

\* for it in prange(bandw), the offsets taken one after the other.
RECURSIVE DenseLoopIt(_, _, _, _, _, _, _)
DenseLoopIt(base, temp, pp, bandw, it, g, st) ==
    IF it >= bandw THEN st
    ELSE After(st,
         DenseLoopIt(base, temp, pp, bandw, it + 1, g,
                     DenseLoopJt(base, temp, pp, bandw, it, 0, g, st)))

\* What a call returns: status "error" is a Python exception (np.zeros with a
\* negative dimension raises ValueError).
Raised(fn) ==
    [fn |-> fn, status |-> "error", ub |-> FALSE, wild |-> FALSE,
     m |-> Zeros(0, 0), w |-> {}, acc |-> {}]

Returned(fn, st) ==
    [fn |-> fn, status |-> "ok", ub |-> st.ub, wild |-> st.wild,
     m |-> st.m, w |-> st.w, acc |-> st.acc]

\* The loop state at entry: the zero matrix, no access made.  ub: an access
\* left the shape of its array; wild: a write fell outside the output buffer;
\* w: the offsets written; acc: the accumulations of build_banded_3.
Fresh(r, c) ==
    [m |-> Zeros(r, c), ub |-> FALSE, wild |-> FALSE, w |-> {}, acc |-> {}]

build_banded(base, temp, pp, g) ==
    LET n_t == temp.shape0
        n_coeffs == base.shape0
        bandw == BandwOffset(pp, n_coeffs)
    IN  IF bandw < 0 THEN Raised("build_banded")
        ELSE Returned("build_banded",
                DenseLoopIt(base, temp, pp, bandw, 0, g,
                    Fresh(bandw, n_t * n_coeffs)))

----------------------------------------------------------------------------
(* build_banded_2 *)

\* x[i] of a typed memoryview long[::1] held as a sequence (0-based index).
Elem(x, i, g) == IF i + 1 \in DOMAIN x THEN x[i + 1] ELSE g

\* for kt in range(starts[ind], starts[ind+1]): banded[k, it+jt] += ...
RECURSIVE IndexLoopKt(_, _, _, _, _, _, _, _, _, _, _)
IndexLoopKt(base, temp, inds, it_t, it_s, jt_t, jt_s, kt, stop, g, acc) ==
    IF kt >= stop THEN acc
    ELSE After(acc,
         IndexLoopKt(base, temp, inds, it_t, it_s, jt_t, jt_s, kt + 1, stop, g,
            [cell |-> acc.cell
                        + Product(base, temp, it_t, it_s, jt_t, jt_s,
                                  Elem(inds, kt, g), g),
             ub |-> acc.ub
                     \/ kt + 1 \notin DOMAIN inds
                     \/ ~ReadsInShape(base, temp, it_t, it_s, jt_t, jt_s,
                                      Elem(inds, kt, g))]))

\* A group index without the stride n_t.
GroupOfUnstrided(it_t, jt_t, n_t) == it_t + jt_t

\* The group of the temporal-block pair.
GroupOf(it_t, jt_t, n_t) == it_t * n_t + jt_t

IndexCell(base, temp, pp, inds, sts, bandw, it, jt, g, st) ==
    LET n_coeffs == base.shape0
        it_t == (it + jt) \div n_coeffs
        jt_t == jt \div n_coeffs
        it_s == (it + jt) % n_coeffs
        jt_s == jt % n_coeffs
        ind == GroupOf(it_t, jt_t, temp.shape0)
        a == Offset(st.m, BandRow(bandw, it), it + jt)
        r == IndexLoopKt(base, temp, inds, it_t, it_s, jt_t, jt_s,
                         Elem(sts, ind, g), Elem(sts, ind + 1, g), g,
                         [cell |-> st.m.data[a],
                          ub |-> st.ub \/ ind + 1 \notin DOMAIN sts
                                       \/ ind + 2 \notin DOMAIN sts])
    IN  IF BlockSkip(pp, it_t, jt_t) THEN st
        ELSE [st EXCEPT !.m.data[a] = r.cell, !.ub = r.ub, !.w = @ \cup {a}]

RECURSIVE IndexLoopJt(_, _, _, _, _, _, _, _, _, _)
IndexLoopJt(base, temp, pp, inds, sts, bandw, it, jt, g, st) ==
    IF jt >= temp.shape0 * base.shape0 - it THEN st
    ELSE After(st,
         IndexLoopJt(base, temp, pp, inds, sts, bandw, it, jt + 1, g,
                     IndexCell(base, temp, pp, inds, sts, bandw, it, jt, g, st)))

RECURSIVE IndexLoopIt(_, _, _, _, _, _, _, _, _)
IndexLoopIt(base, temp, pp, inds, sts, bandw, it, g, st) ==
    IF it >= bandw THEN st
    ELSE After(st,
         IndexLoopIt(base, temp, pp, inds, sts, bandw, it + 1, g,
                     IndexLoopJt(base, temp, pp, inds, sts, bandw, it, 0, g, st)))

build_banded_2(base, temp, pp, inds, sts, g) ==
    LET n_t == temp.shape0
        n_coeffs == base.shape0
        bandw == BandwOffset(pp, n_coeffs)
    IN  IF bandw < 0 THEN Raised("build_banded_2")
        ELSE Returned("build_banded_2",
                IndexLoopIt(base, temp, pp, inds, sts, bandw, 0, g,
                    Fresh(bandw, n_t * n_coeffs)))

----------------------------------------------------------------------------
(* build_banded_3 *)

\* bandw of build_banded_3.
BandwLocal(deg, n_coeffs) == (deg + 1) * n_coeffs

\* The output row of one accumulation.
LocalRow(n_coeffs, pt, qt, i, j) ==
    n_coeffs * (WindowLiteral + pt - qt) + j - i - 1

\* banded[ind, i + q*n_coeffs] += temporal[p, it] * temporal[q, it]
\*                                  * base_DIF[i, it] * base_DIF[j, it]
\* A write whose flat offset is inside the buffer lands on the cell at that
\* offset; one outside the buffer does not reach the matrix.
LocalAccumulate(base, temp, it, pt, qt, j, i, g, st) ==
    LET n_coeffs == base.shape0
        ind == LocalRow(n_coeffs, pt, qt, i, j)
        col == i + qt * n_coeffs
        a == Offset(st.m, ind, col)
        val == Load(temp, pt, it, g) * Load(temp, qt, it, g)
                 * Load(base, i, it, g) * Load(base, j, it, g)
        seen == [st EXCEPT
                   !.ub = @ \/ ~InShape(st.m, ind, col) \/ ~InShape(temp, pt, it)
                            \/ ~InShape(temp, qt, it) \/ ~InShape(base, i, it)
                            \/ ~InShape(base, j, it),
                   !.wild = @ \/ a \notin DOMAIN st.m.data,
                   !.acc = @ \cup {[p |-> pt, q |-> qt, i |-> i, j |-> j,
                                    ind |-> ind]}]
    IN  IF a \in DOMAIN st.m.data
        THEN [seen EXCEPT !.m.data[a] = @ + val, !.w = @ \cup {a}]
        ELSE seen

\* for i in range(n_coeffs)
RECURSIVE LocalLoopI(_, _, _, _, _, _, _, _, _)
LocalLoopI(base, temp, it, pt, qt, j, i, g, st) ==
    IF i >= base.shape0 THEN st
    ELSE After(st,
         LocalLoopI(base, temp, it, pt, qt, j, i + 1, g,
                    LocalAccumulate(base, temp, it, pt, qt, j, i, g, st)))

\* for j in range(n_coeffs)
RECURSIVE LocalLoopJ(_, _, _, _, _, _, _, _)
LocalLoopJ(base, temp, it, pt, qt, j, g, st) ==
    IF j >= base.shape0 THEN st
    ELSE After(st,
         LocalLoopJ(base, temp, it, pt, qt, j + 1, g,
                    LocalLoopI(base, temp, it, pt, qt, j, 0, g, st)))

\* for q in range(p, nlefts[it]+1): if n_t <= q: continue
RECURSIVE LocalLoopQ(_, _, _, _, _, _, _, _)
LocalLoopQ(base, temp, it, pt, qt, stop, g, st) ==
    IF qt >= stop THEN st
    ELSE After(st,
         LocalLoopQ(base, temp, it, pt, qt + 1, stop, g,
                    IF temp.shape0 <= qt THEN st
                    ELSE LocalLoopJ(base, temp, it, pt, qt, 0, g, st)))

\* for p in range(nlefts[it]-deg, nlefts[it]+1): if n_t <= p: continue
RECURSIVE LocalLoopP(_, _, _, _, _, _, _)
LocalLoopP(base, temp, it, pt, stop, g, st) ==
    IF pt >= stop THEN st
    ELSE After(st,
         LocalLoopP(base, temp, it, pt + 1, stop, g,
                    IF temp.shape0 <= pt THEN st
                    ELSE LocalLoopQ(base, temp, it, pt, pt, stop, g, st)))

\* for it in range(n_data)
RECURSIVE LocalLoopIt(_, _, _, _, _, _, _)
LocalLoopIt(nl, base, temp, deg, it, g, st) ==
    IF it >= base.shape1 THEN st
    ELSE After(st,
         LocalLoopIt(nl, base, temp, deg, it + 1, g,
                     LocalLoopP(base, temp, it, Elem(nl, it, g) - deg,
                                Elem(nl, it, g) + 1, g,
                                [st EXCEPT !.ub = @ \/ it + 1 \notin DOMAIN nl])))

build_banded_3(nl, base, temp, deg, g) ==
    LET n_t == temp.shape0
        n_coeffs == base.shape0
        bandw == BandwLocal(deg, n_coeffs)
    IN  IF bandw < 0 THEN Raised("build_banded_3")
        ELSE Returned("build_banded_3",
                LocalLoopIt(nl, base, temp, deg, 0, g,
                            Fresh(bandw, n_t * n_coeffs)))

----------------------------------------------------------------------------
(* Inputs. *)

\* What memory outside an array may hold.  A call in which no access leaves
\* its array (ub is false) reads none of it.
Garbage == 0..MaxVal

RECURSIVE Pow(_, _)
Pow(b, e) == IF e = 0 THEN 1 ELSE b * Pow(b, e - 1)

\* The matrices of the model: the three ternary digits of seed laid out
\* cyclically over the row-major entries, digit 2 standing for MaxVal.
Digit(seed, a) == (seed \div Pow(3, a % 3)) % 3

Entry(seed, a) == IF Digit(seed, a) = 2 THEN MaxVal ELSE Digit(seed, a)

Matrix(r, c, seed) ==
    [shape0 |-> r, shape1 |-> c,
     data |-> [a \in 0..(r * c - 1) |-> Entry(seed, a)]]

\* The ascending sequence of the elements of a finite set of integers.
RECURSIVE Ascending(_)
Ascending(S) ==
    IF S = {} THEN <<>>
    ELSE LET lo == CHOOSE x \in S : \A y \in S : x <= y
         IN  <<lo>> \o Ascending(S \ {lo})

\* The observations at which both temporal rows are nonzero.
BothNonzero(temp, it_t, jt_t) ==
    {k \in 0..(temp.shape1 - 1) : At(temp, it_t, k) # 0 /\ At(temp, jt_t, k) # 0}

\* The group of pair ind as the preprocessing stage stores it; with drop = k
\* observation k is left out of every group (an under-covering grouping),
\* with drop = -1 none is.
Group(temp, ind, drop) ==
    Ascending(BothNonzero(temp, ind \div temp.shape0, ind % temp.shape0) \ {drop})

RECURSIVE FlatInds(_, _, _)
FlatInds(temp, ind, drop) ==
    IF ind >= temp.shape0 * temp.shape0 THEN <<>>
    ELSE Group(temp, ind, drop) \o FlatInds(temp, ind + 1, drop)

RECURSIVE Starts(_, _, _, _)
Starts(temp, ind, drop, at) ==
    IF ind > temp.shape0 * temp.shape0 THEN <<>>
    ELSE <<at>> \o Starts(temp, ind + 1, drop, at + Len(Group(temp, ind, drop)))

----------------------------------------------------------------------------
(* The sequential calls. *)

NoResult ==
    [fn |-> "none", status |-> "none", ub |-> FALSE, wild |-> FALSE,
     m |-> Zeros(0, 0), w |-> {}, acc |-> {}]

\* The parallel run's variables while no parallel run is modelled.
Idle ==
    /\ banded = Zeros(0, 0)
    /\ thr = <<>>
    /\ todo = {}
    /\ writers = <<>>

Init ==
    /\ \E n_coeffs \in 1..MaxCoeffs, n_t \in 1..MaxNt, n_data \in 0..MaxData,
          bseed \in 0..MaxSeed, tseed \in 0..MaxSeed :
          /\ base_DIF = Matrix(n_coeffs, n_data, bseed)
          /\ temporal = Matrix(n_t, n_data, tseed)
    /\ p \in 0..MaxP
    /\ \E drop \in {0 - 1, temporal.shape1 - 1} :
          /\ nonzero_inds = FlatInds(temporal, 0, drop)
          /\ starts = Starts(temporal, 0, drop, 0)
    /\ nlefts = <<>>
    /\ result = NoResult
    /\ Idle

CallBuildBanded ==
    /\ result.fn = "none"
    /\ LET r == build_banded(base_DIF, temporal, p, 0)
       IN  IF r.ub
           THEN \E g \in Garbage :
                   result' = build_banded(base_DIF, temporal, p, g)
           ELSE result' = r
    /\ UNCHANGED <<inputs, parvars>>

CallBuildBanded2 ==
    /\ result.fn = "none"
    /\ LET r == build_banded_2(base_DIF, temporal, p, nonzero_inds, starts, 0)
       IN  IF r.ub
           THEN \E g \in Garbage :
                   result' = build_banded_2(base_DIF, temporal, p, nonzero_inds,
                                            starts, g)
           ELSE result' = r
    /\ UNCHANGED <<inputs, parvars>>

Next == CallBuildBanded \/ CallBuildBanded2

Spec == Init /\ [][Next]_vars

----------------------------------------------------------------------------
(* The calls of build_banded_3. *)

\* The temporal basis of a compactly supported spline: observation k is
\* nonzero only at the temporal indices nl[k]-deg .. nl[k].
Windowed(n_t, n_data, nl, deg, seed) ==
    [shape0 |-> n_t, shape1 |-> n_data,
     data |-> [a \in 0..(n_t * n_data - 1) |->
                 IF /\ nl[(a % n_data) + 1] - deg <= a \div n_data
                    /\ a \div n_data <= nl[(a % n_data) + 1]
                 THEN Entry(seed, a) ELSE 0]]

\* A write outside the output buffer may also end the process.
Crashed(fn) ==
    [fn |-> fn, status |-> "crash", ub |-> TRUE, wild |-> TRUE,
     m |-> Zeros(0, 0), w |-> {}, acc |-> {}]

InitLocal ==
    /\ p \in (0 - 2)..MaxDeg
    /\ \E n_coeffs \in 1..MaxCoeffs, n_t \in 1..MaxLocalNt, n_data \in 0..MaxData,
          tseed \in 0..MaxSeed :
          /\ base_DIF = Matrix(n_coeffs, n_data, MaxSeed)
          /\ nlefts \in [1..n_data -> (0 - 1)..n_t]
          /\ temporal = Windowed(n_t, n_data, nlefts, p, tseed)
    /\ nonzero_inds = <<>>
    /\ starts = <<>>
    /\ result = NoResult
    /\ Idle

CallBuildBanded3 ==
    /\ result.fn = "none"
    /\ LET r == build_banded_3(nlefts, base_DIF, temporal, p, 0)
       IN  IF r.ub
           THEN \/ \E g \in Garbage :
                      result' = build_banded_3(nlefts, base_DIF, temporal, p, g)
                \/ r.wild /\ result' = Crashed("build_banded_3")
           ELSE result' = r
    /\ UNCHANGED <<inputs, parvars>>

NextLocal == CallBuildBanded3

SpecLocal == InitLocal /\ [][NextLocal]_vars

----------------------------------------------------------------------------
(* Calls that break the callers' contract: arrays whose dimensions         *)
(* disagree, a negative band parameter.                                    *)

\* x without its last element.
Front(x) == IF x = <<>> THEN x ELSE SubSeq(x, 1, Len(x) - 1)

InitShape ==
    /\ p \in (0 - 2)..MaxP
    /\ \E n_coeffs \in 1..MaxCoeffs, n_t \in 1..MaxNt, n_data \in 0..MaxData,
          d \in {0 - 1, 0, 1}, tseed \in 0..MaxSeed :
          /\ n_data + d >= 0
          /\ base_DIF = Matrix(n_coeffs, n_data, MaxSeed)
          /\ temporal = Matrix(n_t, n_data + d, tseed)
    /\ nonzero_inds = FlatInds(temporal, 0, 0 - 1)
    /\ \E short \in BOOLEAN :
          starts = IF short THEN Front(Starts(temporal, 0, 0 - 1, 0))
                   ELSE Starts(temporal, 0, 0 - 1, 0)
    /\ nlefts = <<>>
    /\ result = NoResult
    /\ Idle

SpecShape == InitShape /\ [][Next]_vars

----------------------------------------------------------------------------
(* The band-offset loop run by parallel threads.                           *)
(* prange(bandw, nogil=True) hands the offsets it to the threads of an     *)
(* OpenMP team; k, it_t, it_s, jt_t, jt_s, jt, kt and ind are assigned in  *)
(* the loop body and so are private to each thread, while banded is        *)
(* shared.  A thread takes any offset not yet started and runs its column  *)
(* loop; every step below is one access to the shared matrix, the load or  *)
(* the store of banded[k, it+jt] += ..., together with the private         *)
(* computation that follows it.                                            *)

\* A team of two threads.  A race takes two accesses, and since a free thread
\* may take any offset not yet started, two threads bring every pair of
\* offsets together at every pair of their positions.
Threads == {1, 2}

Resting == [phase |-> "idle", it |-> 0, jt |-> 0, kt |-> 0, stop |-> 0, tmp |-> 0]

\* The first and one-past-last value of kt for one cell.
KtFirst(fn, it_t, jt_t) ==
    IF fn = "build_banded" THEN 0
    ELSE Elem(starts, GroupOf(it_t, jt_t, temporal.shape0), 0)

KtStop(fn, it_t, jt_t) ==
    IF fn = "build_banded" THEN base_DIF.shape1
    ELSE Elem(starts, GroupOf(it_t, jt_t, temporal.shape0) + 1, 0)

\* The observation read at kt.
ObservationAt(fn, kt) ==
    IF fn = "build_banded" THEN kt ELSE Elem(nonzero_inds, kt, 0)

\* The first column jt' >= jt of offset it that is not skipped and has an
\* accumulation to make; -1 when the column loop ends without one.
RECURSIVE NextColumn(_, _, _)
NextColumn(fn, it, jt) ==
    LET n_coeffs == base_DIF.shape0
        it_t == (it + jt) \div n_coeffs
        jt_t == jt \div n_coeffs
    IN  IF jt >= temporal.shape0 * n_coeffs - it THEN 0 - 1
        ELSE IF \/ BlockSkip(p, it_t, jt_t)
                \/ KtFirst(fn, it_t, jt_t) >= KtStop(fn, it_t, jt_t)
             THEN NextColumn(fn, it, jt + 1)
             ELSE jt

\* The thread's private state on reaching column jt of offset it (jt = -1:
\* the offset is finished).
AtColumn(fn, it, jt) ==
    IF jt < 0 THEN Resting
    ELSE [phase |-> "load", it |-> it, jt |-> jt,
          kt |-> KtFirst(fn, (it + jt) \div base_DIF.shape0,
                         jt \div base_DIF.shape0),
          stop |-> KtStop(fn, (it + jt) \div base_DIF.shape0,
                          jt \div base_DIF.shape0),
          tmp |-> 0]

\* The offset of the cell a thread is accumulating into.
CellOf(th) == Offset(banded, BandRow(banded.shape0, th.it), th.it + th.jt)

InitPar ==
    /\ p \in 0..ParMaxP
    /\ \E n_coeffs \in 1..ParMaxCoeffs, n_t \in 1..ParMaxNt,
          n_data \in 1..ParMaxData :
          /\ base_DIF = Matrix(n_coeffs, n_data, MaxSeed)
          /\ temporal = Matrix(n_t, n_data, MaxSeed)
    /\ nonzero_inds = FlatInds(temporal, 0, 0 - 1)
    /\ starts = Starts(temporal, 0, 0 - 1, 0)
    /\ nlefts = <<>>
    /\ \E fn \in {"build_banded", "build_banded_2"} :
          result = [NoResult EXCEPT !.fn = fn, !.status = "running"]
    /\ banded = Zeros(BandwOffset(p, base_DIF.shape0),
                      temporal.shape0 * base_DIF.shape0)
    /\ todo = 0..(BandwOffset(p, base_DIF.shape0) - 1)
    /\ thr = [t \in Threads |-> Resting]
    /\ writers = [a \in DOMAIN banded.data |-> {}]

\* A free thread starts an offset nobody has started.
StartOffset(t) ==
    /\ result.status = "running"
    /\ thr[t].phase = "idle"
    /\ \E it \in todo :
          /\ todo' = todo \ {it}
          /\ thr' = [thr EXCEPT ![t] = AtColumn(result.fn, it,
                                                NextColumn(result.fn, it, 0))]
    /\ UNCHANGED <<inputs, result, banded, writers>>

\* The read of banded[k, it+jt] in banded[k, it+jt] += ...
LoadCell(t) ==
    /\ thr[t].phase = "load"
    /\ thr' = [thr EXCEPT ![t].phase = "store",
                          ![t].tmp = banded.data[CellOf(thr[t])]]
    /\ UNCHANGED <<inputs, result, banded, todo, writers>>

\* The write of banded[k, it+jt] in banded[k, it+jt] += ..., and the
\* thread's way to its next accumulation.
StoreCell(t) ==
    LET th == thr[t]
        n_coeffs == base_DIF.shape0
        term == Product(base_DIF, temporal,
                        (th.it + th.jt) \div n_coeffs, (th.it + th.jt) % n_coeffs,
                        th.jt \div n_coeffs, th.jt % n_coeffs,
                        ObservationAt(result.fn, th.kt), 0)
    IN  /\ th.phase = "store"
        /\ banded' = [banded EXCEPT !.data[CellOf(th)] = th.tmp + term]
        /\ writers' = [writers EXCEPT ![CellOf(th)] = @ \cup {<<th.it, th.jt>>}]
        /\ thr' = [thr EXCEPT ![t] =
                     IF th.kt + 1 < th.stop
                     THEN [th EXCEPT !.phase = "load", !.kt = @ + 1, !.tmp = 0]
                     ELSE AtColumn(result.fn, th.it,
                                   NextColumn(result.fn, th.it, th.jt + 1))]
        /\ UNCHANGED <<inputs, result, todo>>

\* The end of the parallel loop: return banded.
Join ==
    /\ result.status = "running"
    /\ todo = {}
    /\ \A t \in Threads : thr[t].phase = "idle"
    /\ result' = [result EXCEPT !.status = "ok", !.m = banded]
    /\ UNCHANGED <<inputs, parvars>>

NextPar ==
    \/ \E t \in Threads : StartOffset(t)
    \/ \E t \in Threads : LoadCell(t)
    \/ \E t \in Threads : StoreCell(t)
    \/ Join

SpecPar == InitPar /\ [][NextPar]_vars

----------------------------------------------------------------------------
(* The normal-equations matrix, entry by entry. *)

RECURSIVE SumOver(_, _)
SumOver(f, S) ==
    IF S = {} THEN 0
    ELSE LET x == CHOOSE y \in S : TRUE IN f[x] + SumOver(f, S \ {x})

\* Entry (row, col) of the full matrix: the sum over the observations of the
\* four-factor product.
NormalEntry(base, temp, row, col) ==
    LET n == base.shape0
    IN  SumOver([k \in 0..(base.shape1 - 1) |->
                    At(temp, row \div n, k) * At(base, row % n, k)
                        * At(temp, col \div n, k) * At(base, col % n, k)],
                0..(base.shape1 - 1))

\* The combined indices of the full matrix.
Combined == 0..(temporal.shape0 * base_DIF.shape0 - 1)

BlockDistance(row, col) ==
    Abs(col \div base_DIF.shape0 - row \div base_DIF.shape0)

\* The band row that holds full-matrix entry (row, col) in the block-offset
\* convention.
StoredRow(row, col) == BandwOffset(p, base_DIF.shape0) - 1 - (col - row)

\* C1: build_banded returns a matrix of (p+1)*n_coeffs+1 rows and
\* n_t*n_coeffs columns in which, for every pair (row, col) with col >= row
\* and block distance at most p, the cell banded[bandwidth-1-(col-row), col]
\* is the sum over all observations of the four-factor product.
DenseFillsBand ==
    (result.fn = "build_banded" /\ p >= 0) =>
        /\ result.status = "ok"
        /\ result.m.shape0 = (p + 1) * base_DIF.shape0 + 1
        /\ result.m.shape1 = temporal.shape0 * base_DIF.shape0
        /\ DOMAIN result.m.data = 0..(Size(result.m) - 1)
        /\ \A row \in Combined, col \in Combined :
              (col >= row /\ BlockDistance(row, col) <= p) =>
                  /\ InShape(result.m, StoredRow(row, col), col)
                  /\ At(result.m, StoredRow(row, col), col)
                        = NormalEntry(base_DIF, temporal, row, col)

\* A retained entry between two different temporal blocks to which two
\* observations contribute.
DenseFillsBandWitness ==
    /\ result.fn = "build_banded"
    /\ p = 1 /\ base_DIF.shape0 = 2 /\ temporal.shape0 = 2 /\ base_DIF.shape1 = 2
    /\ \E row \in Combined, col \in Combined :
          /\ col > row /\ BlockDistance(row, col) = 1
          /\ col % 2 # row % 2
          /\ \A k \in 0..1 :
                At(temporal, 0, k) * At(base_DIF, row % 2, k)
                    * At(temporal, 1, k) * At(base_DIF, col % 2, k) # 0
          /\ At(base_DIF, 0, 0) # At(base_DIF, 1, 0)
          /\ At(result.m, StoredRow(row, col), col) >= 2

\* The slice of group ind in the flat index array.
Slice(ind) == SubSeq(nonzero_inds, starts[ind + 1] + 1, starts[ind + 2])

\* The caller's contract on the grouping: starts has n_t*n_t+1 entries and the
\* slice of every pair holds exactly the observations at which both temporal
\* rows are nonzero.
ConsistentIndex ==
    /\ Len(starts) = temporal.shape0 * temporal.shape0 + 1
    /\ \A ind \in 0..(temporal.shape0 * temporal.shape0 - 1) :
          /\ starts[ind + 1] <= starts[ind + 2]
          /\ starts[ind + 1] >= 0 /\ starts[ind + 2] <= Len(nonzero_inds)
          /\ Len(Slice(ind)) = Cardinality({Slice(ind)[x] : x \in DOMAIN Slice(ind)})
          /\ {Slice(ind)[x] : x \in DOMAIN Slice(ind)}
                = BothNonzero(temporal, ind \div temporal.shape0,
                              ind % temporal.shape0)

\* C2: with a grouping that holds, for each temporal-block pair, exactly the
\* observations at which both temporal rows are nonzero, build_banded_2
\* returns the same matrix, cell for cell, as build_banded on the same
\* base_DIF, temporal and p.
IndexedEqualsDense ==
    (result.fn = "build_banded_2" /\ ConsistentIndex) =>
        LET d == build_banded(base_DIF, temporal, p, 0)
        IN  result.status = d.status /\ result.m = d.m

\* A consistent grouping that leaves observations out of some retained pair's
\* slice, with a nonzero cell in the result.
IndexedEqualsDenseWitness ==
    /\ result.fn = "build_banded_2" /\ ConsistentIndex
    /\ p >= 1 /\ temporal.shape0 = 2 /\ temporal.shape1 = 2
    /\ \E ind \in 0..3 : Len(Slice(ind)) = 1
    /\ \E ind \in 0..3 : Len(Slice(ind)) = 2
    /\ \E a \in DOMAIN result.m.data : result.m.data[a] > 1

\* C4: in the matrix returned by build_banded and by build_banded_2, every
\* stored cell banded[bandwidth-1-(col-row), col] of a pair (row, col) with
\* col >= row whose block distance exceeds p is exactly 0, and no iteration
\* wrote into it.
BandZero ==
    (result.fn \in {"build_banded", "build_banded_2"} /\ result.status = "ok") =>
        \A row \in Combined, col \in Combined :
            (col >= row /\ BlockDistance(row, col) > p
                /\ StoredRow(row, col) >= 0) =>
                /\ InShape(result.m, StoredRow(row, col), col)
                /\ At(result.m, StoredRow(row, col), col) = 0
                /\ Offset(result.m, StoredRow(row, col), col) \notin result.w

\* Both matrices nonzero everywhere, and a stored cell beyond the block
\* distance whose full-matrix entry is not zero.
BandZeroWitness ==
    /\ result.fn \in {"build_banded", "build_banded_2"} /\ result.status = "ok"
    /\ p >= 0 /\ base_DIF.shape1 >= 1
    /\ \A a \in DOMAIN temporal.data : temporal.data[a] # 0
    /\ \A a \in DOMAIN base_DIF.data : base_DIF.data[a] # 0
    /\ \E row \in Combined, col \in Combined :
          /\ col >= row /\ BlockDistance(row, col) > p
          /\ StoredRow(row, col) > 0
          /\ NormalEntry(base_DIF, temporal, row, col) # 0
          /\ At(result.m, StoredRow(row, col), col) = 0

----------------------------------------------------------------------------
(* build_banded_3 against build_banded. *)

\* nlefts is consistent with temporal: temporal[t, k] is zero for every t
\* outside [nlefts[k]-deg, nlefts[k]].
ConsistentNlefts ==
    /\ Len(nlefts) = temporal.shape1
    /\ \A k \in 0..(temporal.shape1 - 1), t \in 0..(temporal.shape0 - 1) :
          (t < nlefts[k + 1] - p \/ t > nlefts[k + 1]) => At(temporal, t, k) = 0

\* Every window lies inside the temporal range for the degree of the literal.
WindowsInRange ==
    \A k \in DOMAIN nlefts : nlefts[k] >= 3 /\ nlefts[k] <= temporal.shape0 - 1

\* C3: for deg = p >= 0 and nlefts consistent with temporal, build_banded_3
\* and build_banded hold equal values for every full-matrix entry (row, col)
\* with col >= row: row r of the local-window result equals row r+1 of the
\* dense result, and row 0 of the dense result is all zero.
LocalEqualsDense ==
    (result.fn = "build_banded_3" /\ p >= 0 /\ ConsistentNlefts) =>
        LET d == build_banded(base_DIF, temporal, p, 0).m
        IN  /\ result.status = "ok"
            /\ result.m.shape0 + 1 = d.shape0
            /\ result.m.shape1 = d.shape1
            /\ \A c \in 0..(d.shape1 - 1) : At(d, 0, c) = 0
            /\ \A r \in 0..(result.m.shape0 - 1), c \in 0..(d.shape1 - 1) :
                  (c - (result.m.shape0 - 1 - r) >= 0) =>
                      At(result.m, r, c) = At(d, r + 1, c)

\* The part of C3 the code meets: degree 3, one spatial coefficient and
\* every window inside the temporal range.
LocalEqualsDenseInRange ==
    (result.fn = "build_banded_3" /\ p = 3 /\ base_DIF.shape0 = 1
        /\ WindowsInRange /\ ConsistentNlefts) =>
        LET d == build_banded(base_DIF, temporal, p, 0).m
        IN  /\ result.status = "ok" /\ ~result.ub
            /\ \A r \in 0..(result.m.shape0 - 1), c \in 0..(d.shape1 - 1) :
                  At(result.m, r, c) = At(d, r + 1, c)

\* C5: in build_banded_3 every temporal row index p and q used to read
\* temporal[p, k] and temporal[q, k] and to form the output column
\* i + q*n_coeffs lies in [0, n_t), also for an observation whose window
\* leaves the temporal range.
LocalWindowClamped ==
    (result.fn = "build_banded_3") =>
        \A x \in result.acc :
            /\ 0 <= x.p /\ x.p < temporal.shape0
            /\ 0 <= x.q /\ x.q < temporal.shape0

\* C10: in build_banded_3 with deg = 3 and every nlefts[k] in [3, n_t-1],
\* every accumulation has 0 <= ind < (deg+1)*n_coeffs, a column below
\* n_t*n_coeffs, and addresses a full-matrix entry (row p*n_coeffs + j,
\* column q*n_coeffs + i) with column >= row.
LocalWritesInBand ==
    (result.fn = "build_banded_3" /\ p = 3 /\ WindowsInRange) =>
        \A x \in result.acc :
            /\ 0 <= x.ind /\ x.ind < (p + 1) * base_DIF.shape0
            /\ x.i + x.q * base_DIF.shape0 < temporal.shape0 * base_DIF.shape0
            /\ x.q * base_DIF.shape0 + x.i >= x.p * base_DIF.shape0 + x.j

----------------------------------------------------------------------------
(* Errors. *)

\* C6: when the number of columns of base_DIF differs from that of temporal,
\* or starts has a length other than n_t*n_t+1 in build_banded_2, the
\* assembler reports an error before any accumulation and returns no matrix;
\* it never reads past an array's extent.
ShapeMismatchRejected ==
    (/\ result.fn \in {"build_banded", "build_banded_2"}
     /\ \/ base_DIF.shape1 # temporal.shape1
        \/ /\ result.fn = "build_banded_2"
           /\ Len(starts) # temporal.shape0 * temporal.shape0 + 1) =>
        /\ result.status = "error"
        /\ ~result.ub
        /\ result.w = {}

\* The computed bandwidth of the assembler that ran.
Bandwidth ==
    IF result.fn = "build_banded_3" THEN BandwLocal(p, base_DIF.shape0)
    ELSE BandwOffset(p, base_DIF.shape0)

\* C8: a call with a negative band parameter, or with parameters for which
\* the computed bandwidth is not positive, ends in an error and returns no
\* matrix.
NegativeBandRejected ==
    (result.fn # "none" /\ (p < 0 \/ Bandwidth <= 0)) => result.status = "error"

----------------------------------------------------------------------------
(* Additivity over observations. *)

\* The columns A of m, in ascending order.
RestrictCols(m, A) ==
    [shape0 |-> m.shape0, shape1 |-> Cardinality(A),
     data |-> [a \in 0..(m.shape0 * Cardinality(A) - 1) |->
                 At(m, a \div Cardinality(A),
                    Ascending(A)[(a % Cardinality(A)) + 1])]]

\* The entries of nlefts of the observations A.
RestrictNlefts(A) == [x \in 1..Cardinality(A) |-> nlefts[Ascending(A)[x] + 1]]

\* The number of observation k among the observations A.
Rank(k, A) == Cardinality({x \in A : x < k})

\* The slice of group ind cut down to the observations A, renumbered.
RestrictedGroup(ind, A) ==
    LET In(k) == k \in A
        kept == SelectSeq(Slice(ind), In)
    IN  [x \in DOMAIN kept |-> Rank(kept[x], A)]

RECURSIVE RestrictedInds(_, _)
RestrictedInds(ind, A) ==
    IF ind >= temporal.shape0 * temporal.shape0 THEN <<>>
    ELSE RestrictedGroup(ind, A) \o RestrictedInds(ind + 1, A)

RECURSIVE RestrictedStarts(_, _, _)
RestrictedStarts(ind, A, at) ==
    IF ind > temporal.shape0 * temporal.shape0 THEN <<>>
    ELSE <<at>> \o RestrictedStarts(ind + 1, A, at + Len(RestrictedGroup(ind, A)))

\* The assembler fn on the observations A alone.
AssembleOn(fn, A, g) ==
    CASE fn = "build_banded" ->
            build_banded(RestrictCols(base_DIF, A), RestrictCols(temporal, A), p, g)
      [] fn = "build_banded_2" ->
            build_banded_2(RestrictCols(base_DIF, A), RestrictCols(temporal, A), p,
                           RestrictedInds(0, A), RestrictedStarts(0, A, 0), g)
      [] fn = "build_banded_3" ->
            build_banded_3(RestrictNlefts(A), RestrictCols(base_DIF, A),
                           RestrictCols(temporal, A), p, g)

Observations == 0..(base_DIF.shape1 - 1)

\* C9: for each assembler and any split of the observations into two
\* disjoint sets A and B, the matrix assembled from all observations is the
\* elementwise sum of the matrix assembled from A and the one from B.
AdditiveOverObservations ==
    (result.fn # "none" /\ result.status = "ok") =>
        \A A \in SUBSET Observations, ga \in Garbage, gb \in Garbage :
            LET ra == AssembleOn(result.fn, A, ga)
                rb == AssembleOn(result.fn, Observations \ A, gb)
            IN  /\ ra.status = "ok" /\ rb.status = "ok"
                /\ DOMAIN ra.m.data = DOMAIN result.m.data
                /\ DOMAIN rb.m.data = DOMAIN result.m.data
                /\ \A a \in DOMAIN result.m.data :
                      result.m.data[a] = ra.m.data[a] + rb.m.data[a]

----------------------------------------------------------------------------
(* The parallel band-offset loop. *)

\* C7: with the band-offset loop split across parallel threads in any
\* interleaving, the thread running offset it writes only cells of row
\* bandw-1-it, every cell is written for at most one (it, jt) pair, and the
\* returned matrix is the one the offsets produce when run one after the
\* other.
ParallelOffsetsDisjoint ==
    (result.status \in {"running", "ok"} /\ result.fn # "build_banded_3"
        /\ DOMAIN writers = DOMAIN banded.data) =>
        /\ \A a \in DOMAIN writers :
              /\ Cardinality(writers[a]) <= 1
              /\ \A x \in writers[a] :
                    /\ a \div banded.shape1 = banded.shape0 - 1 - x[1]
                    /\ a % banded.shape1 = x[1] + x[2]
        /\ (result.status = "ok" /\ result.fn = "build_banded") =>
              result.m = build_banded(base_DIF, temporal, p, 0).m
        /\ (result.status = "ok" /\ result.fn = "build_banded_2") =>
              result.m = build_banded_2(base_DIF, temporal, p, nonzero_inds,
                                        starts, 0).m

\* Two threads are in the middle of accumulations for different offsets into
\* the same column, and the run later returns a matrix with a nonzero cell.
ParallelOffsetsDisjointWitness ==
    /\ result.status = "running"
    /\ \E t \in Threads, u \in Threads :
          /\ t # u
          /\ thr[t].phase = "store" /\ thr[u].phase = "store"
          /\ thr[t].it # thr[u].it
          /\ thr[t].it + thr[t].jt = thr[u].it + thr[u].jt
          /\ thr[t].kt > 0
    /\ \E a \in DOMAIN banded.data : banded.data[a] > 0

====
